---- MODULE Spec2Model ----
(***************************************************************************)
(* vibe_trader: a TradingAssistant fed by one data listener (mock, file    *)
(* or websocket) under asyncio's cooperative scheduling.  One task runs    *)
(* start(); the main coroutine may call stop() whenever that task is       *)
(* suspended at an await that really yields (a sleep, a connect, a message *)
(* wait).                                                                  *)
(***************************************************************************)
EXTENDS Integers, Sequences, FiniteSets, TLC

\* ------------------------------------------------------------- bounds
MaxEvents == 3      \* lines read / messages received / mock ticks per run
MaxCap == 2         \* largest max_history tried
MaxHist == 4        \* longest history list handed to analyze on its own
MaxCalls == 2       \* analyze calls made on the same arguments
MaxFailures == 2    \* consecutive websocket connection failures tried

\* ---------------------------------------------------------- constants
ReconnectInterval == 5      \* WebSocketDataListener(reconnect_interval=5)
RsiPeriod == 14             \* RSIStrategy(period=14)
Oversold == 30              \* RSIStrategy(oversold=30)
Overbought == 70            \* RSIStrategy(overbought=70)
DefaultMaxHistory == 1000   \* TradingAssistant(max_history=1000)
ThresholdPct == 2           \* MomentumStrategy(threshold=0.02), in percent
WalkPct == 2                \* random.uniform(-0.02, 0.02), in percent

Prices == {0, 100, 102, 103}

\* ------------------------------------------------------- models.py
\* A wire record (a file line or a websocket message), by the features
\* PriceData.from_json looks at.
Rec(blank, json, date, pk, price) ==
    [blank |-> blank, json |-> json, date |-> date, pk |-> pk, price |-> price]

LineSet ==
    { Rec(TRUE, FALSE, "absent", "absent", 0),     \* empty / whitespace only
      Rec(FALSE, FALSE, "absent", "absent", 0),    \* not JSON
      Rec(FALSE, TRUE, "absent", "num", 100),      \* no "date" key
      Rec(FALSE, TRUE, "badstr", "num", 100),      \* "date" is no ISO string
      Rec(FALSE, TRUE, "iso", "absent", 0),        \* no "price" key
      Rec(FALSE, TRUE, "iso", "str", 0),           \* "price": "abc"
      Rec(FALSE, TRUE, "nonstr", "num", 100) }     \* "date": 17 (kept as is)
    \cup { Rec(FALSE, TRUE, "iso", "num", p) : p \in Prices }

Raise(e) == [ok |-> FALSE, err |-> e, price |-> 0]
Parsed(p) == [ok |-> TRUE, err |-> "none", price |-> p]

\* Mutant: data.get('price', 0) instead of data['price'].
from_dict_default_price(r) ==
    IF r.date = "absent" THEN Raise("KeyError")
    ELSE IF r.date = "badstr" THEN Raise("ValueError")
    ELSE IF r.pk = "str" THEN Raise("ValueError")
    ELSE Parsed(r.price)

\* PriceData.from_dict: data['date'] first, then float(data['price']).
from_dict(r) ==
    IF r.date = "absent" THEN Raise("KeyError")
    ELSE IF r.date = "badstr" THEN Raise("ValueError")
    ELSE IF r.pk = "absent" THEN Raise("KeyError")
    ELSE IF r.pk = "str" THEN Raise("ValueError")
    ELSE Parsed(r.price)

\* PriceData.from_json: json.loads, then from_dict.
from_json(r) ==
    IF ~r.json THEN Raise("JSONDecodeError") ELSE from_dict(r)

Obs(i, p) == [id |-> i, price |-> p]
NoObs == Obs(0, 0)

\* The arguments of _execute_signal(signal, data, strategy) at main.py line
\* 86; the strategy is named by its place in the strategies list.
HookCall(r, data, i) == [signal |-> r, data |-> data, strategy |-> i]
NoHook == HookCall("None", NoObs, 0)

\* ------------------------------------------------ trading_strategies.py
Mom(k) == [kind |-> "Momentum", a |-> k, b |-> 0]
SMA(s, l) == [kind |-> "SMA", a |-> s, b |-> l]
RSI(p, lo, hi) == [kind |-> "RSI", a |-> p, b |-> lo, c |-> hi]

RECURSIVE SumPrices(_)
SumPrices(s) == IF s = <<>> THEN 0 ELSE Head(s).price + SumPrices(Tail(s))

RECURSIVE SumInts(_)
SumInts(s) == IF s = <<>> THEN 0 ELSE Head(s) + SumInts(Tail(s))

\* Python's s[-k:] for k >= 1.
LastK(s, k) == IF Len(s) <= k THEN s ELSE SubSeq(s, Len(s) - k + 1, Len(s))

\* Mutant: the previous short average must be strictly below the long one.
SmaAnalyzeStrictPrev(short, long, history) ==
    IF Len(history) < long THEN "HOLD"
    ELSE
      LET recent == LastK(history, long)
          shortSum == SumPrices(LastK(recent, short))
          longSum == SumPrices(recent)
      IN IF Len(history) >= long + 1
         THEN LET prev == SubSeq(history, Len(history) - long, Len(history) - 1)
                  prevShortSum == SumPrices(LastK(prev, short))
                  prevLongSum == SumPrices(prev)
              IN IF shortSum * long > longSum * short
                    /\ prevShortSum * long < prevLongSum * short THEN "BUY"
                 ELSE IF shortSum * long < longSum * short
                    /\ prevShortSum * long > prevLongSum * short THEN "SELL"
                 ELSE "HOLD"
         ELSE "HOLD"

\* Mutant: prev_prices[:short_window] instead of prev_prices[-short_window:].
SmaAnalyzePrevHead(short, long, history) ==
    IF Len(history) < long THEN "HOLD"
    ELSE
      LET recent == LastK(history, long)
          shortSum == SumPrices(LastK(recent, short))
          longSum == SumPrices(recent)
      IN IF Len(history) >= long + 1
         THEN LET prev == SubSeq(history, Len(history) - long, Len(history) - 1)
                  prevShortSum == SumPrices(SubSeq(prev, 1, short))
                  prevLongSum == SumPrices(prev)
              IN IF shortSum * long > longSum * short
                    /\ prevShortSum * long <= prevLongSum * short THEN "BUY"
                 ELSE IF shortSum * long < longSum * short
                    /\ prevShortSum * long >= prevLongSum * short THEN "SELL"
                 ELSE "HOLD"
         ELSE "HOLD"

\* SimpleMovingAverageStrategy.analyze; a/b compared with c/d as a*d with c*b.
SmaAnalyze(short, long, history) ==
    IF Len(history) < long THEN "HOLD"
    ELSE
      LET recent == LastK(history, long)
          shortSum == SumPrices(LastK(recent, short))
          longSum == SumPrices(recent)
      IN IF Len(history) >= long + 1
         THEN LET prev == SubSeq(history, Len(history) - long, Len(history) - 1)
                  prevShortSum == SumPrices(LastK(prev, short))
                  prevLongSum == SumPrices(prev)
              IN IF shortSum * long > longSum * short
                    /\ prevShortSum * long <= prevLongSum * short THEN "BUY"
                 ELSE IF shortSum * long < longSum * short
                    /\ prevShortSum * long >= prevLongSum * short THEN "SELL"
                 ELSE "HOLD"
         ELSE "HOLD"

\* The decision of RSIStrategy.analyze on a price window (lines 69-92).
\* avg_gain / avg_loss is gainSum / lossSum (both are divided by the same
\* count), so rsi = 100 - 100 / (1 + rs) is the fraction rsiNum / rsiDen,
\* compared with a threshold by cross-multiplying.
RsiOf(prices, oversold, overbought) ==
    LET price_changes ==
            [i \in 1..(Len(prices) - 1) |-> prices[i + 1].price - prices[i].price]
        gains == [i \in DOMAIN price_changes |->
                    IF price_changes[i] > 0 THEN price_changes[i] ELSE 0]
        losses == [i \in DOMAIN price_changes |->
                    IF price_changes[i] < 0 THEN -price_changes[i] ELSE 0]
        gainSum == SumInts(gains)
        lossSum == SumInts(losses)
        rsiNum == IF lossSum = 0 THEN 100
                  ELSE 100 * (lossSum + gainSum) - 100 * lossSum
        rsiDen == IF lossSum = 0 THEN 1 ELSE lossSum + gainSum
    IN IF rsiNum < oversold * rsiDen THEN "BUY"
       ELSE IF rsiNum > overbought * rsiDen THEN "SELL"
       ELSE "HOLD"

\* Mutant: the warm-up test is len(history) < period.
RsiAnalyzeShortWarmUp(period, oversold, overbought, history) ==
    IF Len(history) < period THEN "HOLD"
    ELSE RsiOf(LastK(history, period + 1), oversold, overbought)

\* Mutant: the window is history[-period:], one price short.
RsiAnalyzeShortWindow(period, oversold, overbought, history) ==
    IF Len(history) < period + 1 THEN "HOLD"
    ELSE RsiOf(LastK(history, period), oversold, overbought)

\* RSIStrategy.analyze: HOLD until period + 1 prices are there, then the
\* decision on history[-period-1:].
RsiAnalyze(period, oversold, overbought, history) ==
    IF Len(history) < period + 1 THEN "HOLD"
    ELSE RsiOf(LastK(history, period + 1), oversold, overbought)

\* num / den > pct / 100 and num / den < pct / 100, for den # 0 of either sign.
DivGt(num, den, pct) ==
    IF den > 0 THEN num * 100 > pct * den ELSE num * 100 < pct * den
DivLt(num, den, pct) ==
    IF den > 0 THEN num * 100 < pct * den ELSE num * 100 > pct * den

\* Mutant: the thresholds are inclusive (>= and <=).
MomentumAnalyzeInclusive(lookback, data, history) ==
    IF Len(history) < lookback THEN "HOLD"
    ELSE
      LET past == history[Len(history) - lookback + 1].price
      IN IF past = 0 THEN "RAISE"
         ELSE IF ~DivLt(data.price - past, past, ThresholdPct) THEN "BUY"
         ELSE IF ~DivGt(data.price - past, past, -ThresholdPct) THEN "SELL"
         ELSE "HOLD"

\* MomentumStrategy.analyze; the division by past_price raises when it is 0.
MomentumAnalyze(lookback, data, history) ==
    IF Len(history) < lookback THEN "HOLD"
    ELSE
      LET past == history[Len(history) - lookback + 1].price
      IN IF past = 0 THEN "RAISE"
         ELSE IF DivGt(data.price - past, past, ThresholdPct) THEN "BUY"
         ELSE IF DivLt(data.price - past, past, -ThresholdPct) THEN "SELL"
         ELSE "HOLD"

analyze(s, data, history) ==
    IF s.kind = "Momentum" THEN MomentumAnalyze(s.a, data, history)
    ELSE IF s.kind = "RSI" THEN RsiAnalyze(s.a, s.b, s.c, history)
    ELSE SmaAnalyze(s.a, s.b, history)

StrategyConfigs == { <<>>, <<Mom(1), Mom(2)>>, <<SMA(1, 2), Mom(2)>> }

\* ---------------------------------------------------------------- state
VARIABLES
    driver,         \* "assistant": the task runs TradingAssistant.start();
                    \* "direct": it runs listener.start(callback) itself
    kind,           \* the data listener: "none", "mock", "file", "ws"
    cap,            \* TradingAssistant(max_history)
    strategies,     \* TradingAssistant.strategies
    hasWebsockets,  \* the websockets package can be imported
    fileExists,     \* FileDataListener.file_path can be opened
    pc,             \* where the task is
    running,        \* TradingAssistant.running
    stats,          \* TradingAssistant.stats
    history,        \* TradingAssistant.price_history
    lrunning,       \* the listener's running
    websocket,      \* WebSocketDataListener.websocket: "None" or "conn"
    mprice,         \* MockDataListener.start: current_price
    cur,            \* the observation being delivered
    si,             \* _analyze_with_strategies: index of the strategy at hand
    seqno,          \* lines read, messages received or ticks generated
    eof,            \* the file was read to its end
    failures,       \* consecutive failed connection attempts
    sleepFor,       \* length of the last reconnect wait (0: none yet)
    lossKind,       \* how the last connection was lost
    delivered,      \* observations handed to the callback, in order
    processed,      \* observations on_data_received has finished with
    inProc,         \* ids of the observations on_data_received is working on
    tickLog,        \* results of the strategies invoked on this tick
    tickBase,       \* the counters when this tick began
    hooks,          \* _execute_signal invocations
    expected,       \* well-formed non-blank lines read so far
    error,          \* exception start() raised to its caller
    cbLog,          \* how each direct callback ended, in order
    stopRan,        \* TradingAssistant.stop() has run
    lstarted,       \* the listener's start() has begun
    earlyStop,      \* the listener's stop() ran before its start()
    stopInRun,      \* stop() ran while the listener's start() was in progress
    deliveredAtStop,\* Len(delivered) at that moment
    stopError,      \* exception a stop() raised
    lastHook,       \* arguments of the last _execute_signal call
    history_list,   \* _analyze_with_strategies: the list handed to analyze
    caller,         \* who awaits on_data_received: "listener" or the place
                    \* the task was at when the main coroutine called it
    feed,           \* prices a caller hands to on_data_received itself
    aStrategy,      \* a strategy object whose analyze is called on its own
    aData,          \* the observation passed to that analyze
    aHistory,       \* the history list passed to that analyze
    aResults,       \* what the calls made so far returned, in order
    aStrategy0,     \* the strategy's parameters before the first call
    aHistory0       \* the history list before the first call

cfgVars == <<driver, kind, cap, strategies, hasWebsockets, fileExists>>
asstVars == <<running, stats, history>>
procVars == <<cur, si, tickLog, tickBase, inProc, processed, hooks, lastHook,
              history_list>>
srcVars == <<websocket, mprice, seqno, eof, expected>>
wsVars == <<failures, sleepFor, lossKind>>
stopVars == <<stopRan, earlyStop, stopInRun, deliveredAtStop, stopError>>
sysVars == <<cfgVars, pc, asstVars, lrunning, lstarted, procVars, srcVars, wsVars,
             stopVars, delivered, error, cbLog>>
argVars == <<feed, aStrategy, aData, aHistory, aResults, aStrategy0, aHistory0>>
caseVars == <<argVars, caller>>
vars == <<cfgVars, pc, asstVars, lrunning, lstarted, procVars, srcVars, wsVars,
          stopVars, delivered, error, cbLog, caseVars>>

\* The awaits at which the task really yields to the event loop.
Suspended ==
    {"t_init", "m_sleep", "f_sleep", "w_connecting", "w_recv", "w_sleep",
     "t_done", "t_raised"}

InitStats ==
    [total_signals |-> 0, buy_signals |-> 0, sell_signals |-> 0,
     hold_signals |-> 0, last_signal |-> "None", last_price |-> <<>>,
     start_time |-> "None"]

Scenarios ==
    { <<"assistant", k, c, s>> :
        k \in {"none", "mock", "file", "ws"}, c \in 1..MaxCap,
        s \in StrategyConfigs }
    \cup { <<"direct", k, 1, <<>> >> : k \in {"mock", "file", "ws"} }

\* The state after construction, for the scenario sc = <<driver, listener,
\* max_history, strategies>>.
SysInit(sc) ==
    /\ driver = sc[1] /\ kind = sc[2] /\ cap = sc[3] /\ strategies = sc[4]
    /\ hasWebsockets \in (IF kind = "ws" THEN BOOLEAN ELSE {TRUE})
    /\ fileExists \in (IF kind = "file" THEN BOOLEAN ELSE {TRUE})
    /\ mprice \in (IF kind = "mock" THEN Prices \ {0} ELSE {100})
    /\ pc = "t_init"
    /\ running = FALSE /\ stats = InitStats /\ history = <<>>
    /\ lrunning = FALSE /\ websocket = "None"
    /\ cur = NoObs /\ si = 0 /\ seqno = 0 /\ eof = FALSE
    /\ failures = 0 /\ sleepFor = 0 /\ lossKind = "none"
    /\ delivered = <<>> /\ processed = <<>> /\ inProc = {}
    /\ tickLog = <<>> /\ tickBase = InitStats /\ hooks = 0 /\ expected = <<>>
    /\ lastHook = NoHook /\ history_list = <<>> /\ caller = "listener"
    /\ error = "none" /\ cbLog = <<>>
    /\ stopRan = FALSE /\ lstarted = FALSE /\ earlyStop = FALSE
    /\ stopInRun = FALSE /\ deliveredAtStop = 0 /\ stopError = "none"

\* No direct feed and no analyze call on its own.
NoCase ==
    /\ feed = <<>>
    /\ aStrategy = Mom(1) /\ aData = NoObs /\ aHistory = <<>> /\ aResults = <<>>
    /\ aStrategy0 = Mom(1) /\ aHistory0 = <<>>

Init == (\E sc \in Scenarios : SysInit(sc)) /\ NoCase

\* ------------------------------------------------ main.py: processing
\* Mutant: a full history refuses the new observation.
DequeAppendDropsNewest(h, o, n) ==
    IF Len(h) < n THEN Append(h, o) ELSE h

\* deque(maxlen=n).append: the oldest element goes when the deque is full.
DequeAppend(h, o, n) ==
    IF n = 0 THEN <<>>
    ELSE IF Len(h) < n THEN Append(h, o)
    ELSE Append(Tail(h), o)

\* Mutant: _analyze_with_strategies is called without await and never runs.
AfterAppendNoAwait(strats) == "o_ret"

\* Mutant: on_data_received analyses only while the assistant is running.
AfterAppendOnlyRunning(strats) ==
    IF ~running \/ strats = <<>> THEN "o_ret" ELSE "o_strat"

\* on_data_received: after the append, strategies run only if there are any.
AfterAppend(strats) == IF strats = <<>> THEN "o_ret" ELSE "o_strat"

\* Mutant: the try encloses the for, so an exception ends the loop.
AfterStrategyEscapes(r, i, n) ==
    IF r = "RAISE" THEN "o_ret" ELSE IF i < n THEN "o_strat" ELSE "o_ret"

\* _analyze_with_strategies: the try is inside the for, so whatever strategy
\* i did (r = "RAISE" included), the loop goes on to strategy i + 1 of n.
AfterStrategy(r, i, n) == IF i < n THEN "o_strat" ELSE "o_ret"

\* Mutant: `if signal:` without the test for HOLD, so a HOLD is counted too.
CountedAnySignal(st, r) ==
    IF r \in {"BUY", "SELL", "HOLD"}
    THEN [st EXCEPT !.total_signals = @ + 1,
                    !.last_signal = r,
                    !.buy_signals = IF r = "BUY" THEN @ + 1 ELSE @,
                    !.sell_signals = IF r = "SELL" THEN @ + 1 ELSE @,
                    !.hold_signals = IF r = "HOLD" THEN @ + 1 ELSE @]
    ELSE st

\* Mutant: the SELL branch is misspelt, so a SELL falls to the else branch.
CountedSellAsHold(st, r) ==
    IF r \in {"BUY", "SELL"}
    THEN [st EXCEPT !.total_signals = @ + 1,
                    !.last_signal = r,
                    !.buy_signals = IF r = "BUY" THEN @ + 1 ELSE @,
                    !.hold_signals = IF r = "SELL" THEN @ + 1 ELSE @]
    ELSE st

\* Mutant: `if` in place of `elif`, so the else branch also takes a BUY.
CountedIfIf(st, r) ==
    IF r \in {"HOLD", "RAISE"} THEN st
    ELSE [st EXCEPT !.total_signals = @ + 1,
                    !.last_signal = r,
                    !.buy_signals = IF r = "BUY" THEN @ + 1 ELSE @,
                    !.sell_signals = IF r = "SELL" THEN @ + 1 ELSE @,
                    !.hold_signals = IF r # "SELL" THEN @ + 1 ELSE @]

\* The stats after strategy result r (lines 74-83): nothing for HOLD (or
\* when analyze raised); otherwise total_signals and last_signal, then the
\* BUY branch, the SELL branch, or the else branch with hold_signals.
Counted(st, r) ==
    IF r \in {"HOLD", "RAISE"} THEN st
    ELSE [st EXCEPT !.total_signals = @ + 1,
                    !.last_signal = r,
                    !.buy_signals = IF r = "BUY" THEN @ + 1 ELSE @,
                    !.sell_signals = IF r = "SELL" THEN @ + 1 ELSE @,
                    !.hold_signals = IF r \notin {"BUY", "SELL"} THEN @ + 1 ELSE @]

\* Mutant: the mock's try encloses the while, so a raising callback ends
\* start().
AfterCallbackPropagates(k, outcome) ==
    IF k = "mock" THEN (IF outcome = "ok" THEN "m_sleep" ELSE "l_raise")
    ELSE IF k = "file" THEN (IF outcome = "ok" THEN "f_sleep" ELSE "f_next")
    ELSE "w_recv"

\* Where the listener's loop continues once the callback has returned
\* ("ok") or raised ("raise").
AfterCallback(k, outcome) ==
    IF k = "mock" THEN (IF outcome = "ok" THEN "m_sleep" ELSE "m_loop")
    ELSE IF k = "file" THEN (IF outcome = "ok" THEN "f_sleep" ELSE "f_next")
    ELSE "w_recv"

\* Mutant: the list is copied before the append.
SnapshotStale(before, after) == before

\* history_list = list(self.price_history) (line 68), taken once per tick from
\* the deque as it is after the append of line 51.
Snapshot(before, after) == after

\* on_data_received, lines 50-61: append, last_price, then the strategies
\* (_analyze_with_strategies up to its for loop, lines 66-68).
OnDataReceived ==
    /\ pc = "cb" /\ driver = "assistant"
    /\ delivered' = Append(delivered, cur)
    /\ history' = DequeAppend(history, cur, cap)
    /\ stats' = [stats EXCEPT !.last_price = <<cur.price>>]
    /\ inProc' = inProc \cup {cur.id}
    /\ tickLog' = <<>>
    /\ tickBase' = stats
    /\ si' = 1
    /\ history_list' = IF strategies = <<>> THEN history_list
                       ELSE Snapshot(history, DequeAppend(history, cur, cap))
    /\ pc' = AfterAppend(strategies)
    /\ UNCHANGED <<caseVars, cfgVars, running, lrunning, lstarted, cur, processed,
                   hooks, lastHook, srcVars, wsVars, stopVars, error, cbLog>>

\* _analyze_with_strategies, one turn of the for loop (lines 70-89).
AnalyzeOne ==
    /\ pc = "o_strat"
    /\ LET r == analyze(strategies[si], cur, history_list)
       IN /\ tickLog' = Append(tickLog, r)
          /\ stats' = Counted(stats, r)
          /\ hooks' = IF r \in {"BUY", "SELL"} THEN hooks + 1 ELSE hooks
          /\ lastHook' = IF r \in {"BUY", "SELL"}
                         THEN HookCall(r, cur, si) ELSE lastHook
          /\ pc' = AfterStrategy(r, si, Len(strategies))
    /\ si' = si + 1
    /\ UNCHANGED <<caseVars, cfgVars, running, history, lrunning, lstarted, cur, tickBase,
                   inProc, processed, history_list, srcVars, wsVars, stopVars,
                   delivered, error, cbLog>>

\* Where on_data_received returns to: into the listener that awaited it, or
\* to the main coroutine, which leaves the task where it was.
ReturnTo(k, c) == IF c = "listener" THEN AfterCallback(k, "ok") ELSE c

\* on_data_received returns.
OnDataReturn ==
    /\ pc = "o_ret"
    /\ processed' = IF Len(tickLog) = Len(strategies)
                    THEN Append(processed, cur) ELSE processed
    /\ inProc' = inProc \ {cur.id}
    /\ pc' = ReturnTo(kind, caller)
    /\ caller' = "listener"
    /\ UNCHANGED <<argVars, cfgVars, asstVars, lrunning, lstarted, cur, si, tickLog,
                   tickBase, hooks, lastHook, history_list, srcVars, wsVars, stopVars, delivered, error,
                   cbLog>>

\* ------------------------------------------------ main.py: start, stop
\* Mutant: the listener is checked after running and start_time are set.
StartNoListenerLate ==
    /\ pc = "t_init" /\ driver = "assistant" /\ kind = "none"
    /\ running' = TRUE
    /\ stats' = [stats EXCEPT !.start_time = "set"]
    /\ pc' = "t_raised"
    /\ error' = "ValueError"
    /\ UNCHANGED <<caseVars, cfgVars, history, lrunning, lstarted, procVars, srcVars,
                   wsVars, stopVars, delivered, cbLog>>

\* TradingAssistant.start, lines 122-123: no listener, ValueError.
StartNoListener ==
    /\ pc = "t_init" /\ driver = "assistant" /\ kind = "none"
    /\ pc' = "t_raised"
    /\ error' = "ValueError"
    /\ UNCHANGED <<caseVars, cfgVars, asstVars, lrunning, lstarted, procVars, srcVars,
                   wsVars, stopVars, delivered, cbLog>>

\* TradingAssistant.start, lines 125-132: up to the call of listener.start.
AssistantStart ==
    /\ pc = "t_init" /\ driver = "assistant" /\ kind # "none"
    /\ running' = TRUE
    /\ stats' = [stats EXCEPT !.start_time = "set"]
    /\ pc' = "l_start"
    /\ UNCHANGED <<caseVars, cfgVars, history, lrunning, lstarted, procVars, srcVars,
                   wsVars, stopVars, delivered, error, cbLog>>

\* The task calls listener.start(callback) with no assistant around it.
DirectStart ==
    /\ pc = "t_init" /\ driver = "direct"
    /\ pc' = "l_start"
    /\ UNCHANGED <<caseVars, cfgVars, asstVars, lrunning, lstarted, procVars, srcVars,
                   wsVars, stopVars, delivered, error, cbLog>>

\* WebSocketDataListener.stop, lines 102-103: close() is called only on a
\* websocket that exists; on None it would raise AttributeError.
ClosesSocket(ws) == ws # "None"

StopError ==
    IF kind = "ws" /\ ClosesSocket(websocket) /\ websocket = "None"
    THEN "AttributeError" ELSE stopError

\* Mutant: stop() leaves the flag as it is.
StopValueKept == lrunning

\* What the listeners' stop() assigns to running.
StopValue == FALSE

\* Mutant: start() has the finally but no `except Exception`.
StartEndsPropagates ==
    /\ pc \in {"l_ret", "l_raise"}
    /\ IF driver = "assistant"
       THEN /\ running' = FALSE
            /\ lrunning' = StopValue
            /\ stopError' = StopError
            /\ stopRan' = TRUE
            /\ pc' = IF pc = "l_ret" THEN "t_done" ELSE "t_raised"
            /\ error' = IF pc = "l_ret" THEN error ELSE "ImportError"
       ELSE /\ pc' = IF pc = "l_ret" THEN "t_done" ELSE "t_raised"
            /\ error' = IF pc = "l_ret" THEN error ELSE "ImportError"
            /\ UNCHANGED <<running, lrunning, stopRan, stopError>>
    /\ UNCHANGED <<caseVars, cfgVars, stats, history, lstarted, procVars, srcVars, wsVars,
                   earlyStop, stopInRun, deliveredAtStop, delivered, cbLog>>

\* listener.start has returned or raised: TradingAssistant.start logs and
\* runs stop() in its finally; a direct caller gets the exception.
StartEnds ==
    /\ pc \in {"l_ret", "l_raise"}
    /\ IF driver = "assistant"
       THEN /\ running' = FALSE
            /\ lrunning' = StopValue
            /\ stopError' = StopError
            /\ stopRan' = TRUE
            /\ pc' = "t_done"
            /\ UNCHANGED error
       ELSE /\ pc' = IF pc = "l_ret" THEN "t_done" ELSE "t_raised"
            /\ error' = IF pc = "l_ret" THEN error ELSE "ImportError"
            /\ UNCHANGED <<running, lrunning, stopRan, stopError>>
    /\ UNCHANGED <<caseVars, cfgVars, stats, history, lstarted, procVars, srcVars, wsVars,
                   earlyStop, stopInRun, deliveredAtStop, delivered, cbLog>>

InRun == lstarted /\ pc \notin {"t_done", "t_raised"}

StopGhosts ==
    /\ earlyStop' = (earlyStop \/ ~lstarted)
    /\ stopInRun' = (stopInRun \/ InRun)
    /\ deliveredAtStop' =
         IF ~stopInRun /\ InRun THEN Len(delivered) ELSE deliveredAtStop

\* The main coroutine calls TradingAssistant.stop() (lines 140-148).
MainStopAssistant ==
    /\ pc \in Suspended /\ driver = "assistant"
    /\ running' = FALSE
    /\ stopRan' = TRUE
    /\ IF kind # "none"
       THEN lrunning' = StopValue /\ stopError' = StopError /\ StopGhosts
       ELSE UNCHANGED <<lrunning, earlyStop, stopInRun, deliveredAtStop,
                        stopError>>
    /\ UNCHANGED <<caseVars, cfgVars, pc, stats, history, lstarted, procVars, srcVars,
                   wsVars, delivered, error, cbLog>>

\* The main coroutine calls the listener's stop() itself.
MainStopListener ==
    /\ pc \in Suspended /\ kind # "none"
    /\ lrunning' = StopValue
    /\ stopError' = StopError
    /\ StopGhosts
    /\ UNCHANGED <<caseVars, cfgVars, pc, asstVars, lstarted, procVars, srcVars, wsVars,
                   stopRan, delivered, error, cbLog>>

\* A callback other than the assistant's: it returns, it raises, or it
\* calls the listener's stop() and returns ("stop").
DirectCallback ==
    /\ pc = "cb" /\ driver = "direct"
    /\ delivered' = Append(delivered, cur)
    /\ \E outcome \in {"ok", "raise", "stop"} :
         /\ cbLog' = Append(cbLog, outcome)
         /\ pc' = AfterCallback(kind, IF outcome = "stop" THEN "ok" ELSE outcome)
         /\ IF outcome = "stop"
            THEN /\ lrunning' = StopValue
                 /\ stopError' = StopError
                 /\ stopInRun' = TRUE
                 /\ deliveredAtStop' = IF stopInRun THEN deliveredAtStop
                                       ELSE Len(delivered) + 1
            ELSE UNCHANGED <<lrunning, stopError, stopInRun, deliveredAtStop>>
    /\ UNCHANGED <<caseVars, cfgVars, asstVars, lstarted, procVars, srcVars,
                   wsVars, stopRan, earlyStop, error>>

\* ------------------------------------------- data_listener.py: mock
\* current_price *= 1 + uniform(-0.02, 0.02), on the price grid.
MockNext(p) ==
    { q \in Prices :
        /\ (q - p) * 100 <= WalkPct * p
        /\ (p - q) * 100 <= WalkPct * p }

\* Mutant: a stop() before start() sticks.
StartValueSticky == ~earlyStop

\* What the listeners' start() assigns to running.
StartValue == TRUE

\* MockDataListener.start, lines 166-171.
MockStart ==
    /\ pc = "l_start" /\ kind = "mock"
    /\ lrunning' = StartValue
    /\ lstarted' = TRUE
    /\ pc' = "m_loop"
    /\ UNCHANGED <<caseVars, cfgVars, asstVars, procVars, srcVars, wsVars, stopVars,
                   delivered, error, cbLog>>

\* `while self.running` holds: one observation is generated (lines 173-186).
MockTick ==
    /\ pc = "m_loop" /\ lrunning /\ seqno < MaxEvents
    /\ \E q \in MockNext(mprice) :
         /\ mprice' = q
         /\ cur' = Obs(seqno + 1, q)
    /\ seqno' = seqno + 1
    /\ pc' = "cb"
    /\ UNCHANGED <<caseVars, cfgVars, asstVars, lrunning, lstarted, si, tickLog, tickBase,
                   inProc, processed, hooks, lastHook, history_list, websocket, eof, expected, wsVars,
                   stopVars, delivered, error, cbLog>>

\* `while self.running` fails: start() returns.
MockExit ==
    /\ pc = "m_loop" /\ ~lrunning
    /\ pc' = "l_ret"
    /\ UNCHANGED <<caseVars, cfgVars, asstVars, lrunning, lstarted, procVars, srcVars,
                   wsVars, stopVars, delivered, error, cbLog>>

\* asyncio.sleep(self.interval) is over (line 192).
MockWake ==
    /\ pc = "m_sleep"
    /\ pc' = "m_loop"
    /\ UNCHANGED <<caseVars, cfgVars, asstVars, lrunning, lstarted, procVars, srcVars,
                   wsVars, stopVars, delivered, error, cbLog>>

\* ------------------------------------------- data_listener.py: file
\* What counts as a well-formed record: a JSON object with a date (an ISO
\* string, or a value that is no string) and a number as price.
WellFormed(r) ==
    /\ ~r.blank /\ r.json
    /\ r.date \in {"iso", "nonstr"}
    /\ r.pk = "num"

\* Mutant: FileNotFoundError is not caught and leaves start().
FileOutcomeUncaught(what) == IF what = "missing" THEN "l_raise" ELSE "l_ret"

\* FileDataListener.start, lines 144-147: a missing file (FileNotFoundError)
\* and any other error of open() or of reading are logged, and start()
\* returns.
FileOutcome(what) == "l_ret"

\* Mutant: the loops deliver without looking at the flag.
BreaksNever(run) == FALSE

\* `if not self.running: break` at the head of the file listener's for loop
\* (lines 123-124) and of the websocket listener's async for (lines 61-62).
Breaks(run) == ~run

\* FileDataListener.start, lines 116-120 and 144-145.
FileStart ==
    /\ pc = "l_start" /\ kind = "file"
    /\ lrunning' = StartValue
    /\ lstarted' = TRUE
    /\ pc' = IF fileExists THEN "f_next" ELSE FileOutcome("missing")
    /\ UNCHANGED <<caseVars, cfgVars, asstVars, procVars, srcVars, wsVars, stopVars,
                   delivered, error, cbLog>>

\* `for line in file` yields a line (lines 122-132 and 141-142).
FileLine ==
    /\ pc = "f_next" /\ seqno < MaxEvents
    /\ seqno' = seqno + 1
    /\ \E r \in LineSet :
         /\ expected' = IF WellFormed(r)
                        THEN Append(expected, Obs(seqno + 1, r.price))
                        ELSE expected
         /\ IF Breaks(lrunning) THEN pc' = "l_ret" /\ UNCHANGED cur
            ELSE IF r.blank THEN pc' = "f_next" /\ UNCHANGED cur
            ELSE IF from_json(r).ok
                 THEN pc' = "cb" /\ cur' = Obs(seqno + 1, from_json(r).price)
                 ELSE pc' = "f_next" /\ UNCHANGED cur
    /\ UNCHANGED <<caseVars, cfgVars, asstVars, lrunning, lstarted, si, tickLog, tickBase,
                   inProc, processed, hooks, lastHook, history_list, websocket, mprice, eof, wsVars,
                   stopVars, delivered, error, cbLog>>

\* `for line in file` is exhausted: start() returns.
FileEof ==
    /\ pc = "f_next"
    /\ eof' = TRUE
    /\ pc' = "l_ret"
    /\ UNCHANGED <<caseVars, cfgVars, asstVars, lrunning, lstarted, procVars, websocket,
                   mprice, seqno, expected, wsVars, stopVars, delivered, error,
                   cbLog>>

\* Reading the next line fails (an I/O or a decoding error, lines 146-147).
FileError ==
    /\ pc = "f_next"
    /\ pc' = FileOutcome("ioerror")
    /\ UNCHANGED <<caseVars, cfgVars, asstVars, lrunning, lstarted, procVars, srcVars,
                   wsVars, stopVars, delivered, error, cbLog>>

\* asyncio.sleep(self.interval) is over (line 139).
FileWake ==
    /\ pc = "f_sleep"
    /\ pc' = "f_next"
    /\ UNCHANGED <<caseVars, cfgVars, asstVars, lrunning, lstarted, procVars, srcVars,
                   wsVars, stopVars, delivered, error, cbLog>>

\* -------------------------------------- data_listener.py: websocket
\* Mutant: the listener gives up after two failed attempts in a row.
KeepGoingGivesUp(run, fails) == run /\ fails < 2

\* `while self.running` (line 53): nothing but the flag decides.
KeepGoing(run, fails) == run

\* The wait before reconnecting (line 86).
ReconnectDelay(fails) == ReconnectInterval

\* WebSocketDataListener.start, lines 45-51.
WsStart ==
    /\ pc = "l_start" /\ kind = "ws"
    /\ IF hasWebsockets
       THEN lrunning' = StartValue /\ lstarted' = TRUE /\ pc' = "w_loop"
       ELSE pc' = "l_raise" /\ UNCHANGED <<lrunning, lstarted>>
    /\ UNCHANGED <<caseVars, cfgVars, asstVars, procVars, srcVars, wsVars, stopVars,
                   delivered, error, cbLog>>

\* Line 53: connect again, or leave the loop and return.
WsLoop ==
    /\ pc = "w_loop"
    /\ pc' = IF KeepGoing(lrunning, failures) THEN "w_connecting" ELSE "l_ret"
    /\ UNCHANGED <<caseVars, cfgVars, asstVars, lrunning, lstarted, procVars, srcVars,
                   wsVars, stopVars, delivered, error, cbLog>>

\* websockets.connect succeeded (lines 56-58).
WsConnected ==
    /\ pc = "w_connecting"
    /\ websocket' = "conn"
    /\ failures' = 0
    /\ pc' = "w_recv"
    /\ UNCHANGED <<caseVars, cfgVars, asstVars, lrunning, lstarted, procVars, mprice,
                   seqno, eof, expected, sleepFor, lossKind, stopVars,
                   delivered, error, cbLog>>

\* websockets.connect raised (lines 78-82).
WsConnectFailed ==
    /\ pc = "w_connecting" /\ failures < MaxFailures
    /\ failures' = failures + 1
    /\ lossKind' = "connect_failed"
    /\ pc' = "w_after"
    /\ UNCHANGED <<caseVars, cfgVars, asstVars, lrunning, lstarted, procVars, srcVars,
                   sleepFor, stopVars, delivered, error, cbLog>>

\* `async for message in websocket` yields a message (lines 60-76).
WsMessage ==
    /\ pc = "w_recv" /\ seqno < MaxEvents
    /\ seqno' = seqno + 1
    /\ \E r \in LineSet :
         IF Breaks(lrunning) THEN pc' = "w_after" /\ UNCHANGED cur
         ELSE IF from_json(r).ok
              THEN pc' = "cb" /\ cur' = Obs(seqno + 1, from_json(r).price)
              ELSE pc' = "w_recv" /\ UNCHANGED cur
    /\ UNCHANGED <<caseVars, cfgVars, asstVars, lrunning, lstarted, si, tickLog, tickBase,
                   inProc, processed, hooks, lastHook, history_list, websocket, mprice, eof, expected,
                   wsVars, stopVars, delivered, error, cbLog>>

\* The connection closed: the message stream ended, or ConnectionClosed
\* was raised and caught at line 78.
WsClosed ==
    /\ pc = "w_recv"
    /\ \E how \in {"closed_ok", "closed_error"} : lossKind' = how
    /\ pc' = "w_after"
    /\ UNCHANGED <<caseVars, cfgVars, asstVars, lrunning, lstarted, procVars, srcVars,
                   failures, sleepFor, stopVars, delivered, error, cbLog>>

\* Lines 84-86: wait reconnect_interval if still running.
WsAfter ==
    /\ pc = "w_after"
    /\ IF lrunning
       THEN sleepFor' = ReconnectDelay(failures) /\ pc' = "w_sleep"
       ELSE pc' = "w_loop" /\ UNCHANGED sleepFor
    /\ UNCHANGED <<caseVars, cfgVars, asstVars, lrunning, lstarted, procVars, srcVars,
                   failures, lossKind, stopVars, delivered, error, cbLog>>

\* asyncio.sleep(self.reconnect_interval) is over.
WsWake ==
    /\ pc = "w_sleep"
    /\ pc' = "w_loop"
    /\ UNCHANGED <<caseVars, cfgVars, asstVars, lrunning, lstarted, procVars, srcVars,
                   wsVars, stopVars, delivered, error, cbLog>>

\* ---------------------------------------------------------------- specs
Next ==
    \/ StartNoListener \/ AssistantStart \/ DirectStart \/ StartEnds
    \/ MainStopAssistant \/ MainStopListener
    \/ OnDataReceived \/ AnalyzeOne \/ OnDataReturn \/ DirectCallback
    \/ MockStart \/ MockTick \/ MockExit \/ MockWake
    \/ FileStart \/ FileLine \/ FileEof \/ FileError \/ FileWake
    \/ WsStart \/ WsLoop \/ WsConnected \/ WsConnectFailed \/ WsMessage
    \/ WsClosed \/ WsAfter \/ WsWake

Spec == Init /\ [][Next]_vars

\* The event loop resumes the task when its sleep is over or its file read
\* is due; the random walk, the file's content and the scheduler's choice
\* between the task and main stay free.
TaskStep ==
    \/ AssistantStart \/ StartEnds
    \/ OnDataReceived \/ AnalyzeOne \/ OnDataReturn \/ DirectCallback
    \/ MockStart \/ MockTick \/ MockExit \/ MockWake
    \/ FileStart \/ FileLine \/ FileEof \/ FileError \/ FileWake

\* The runs of a mock or a file listener, on their own.
LocalInit == Init /\ kind \in {"mock", "file"}

LocalNext ==
    \/ AssistantStart \/ DirectStart \/ StartEnds
    \/ MainStopAssistant \/ MainStopListener
    \/ OnDataReceived \/ AnalyzeOne \/ OnDataReturn \/ DirectCallback
    \/ MockStart \/ MockTick \/ MockExit \/ MockWake
    \/ FileStart \/ FileLine \/ FileEof \/ FileError \/ FileWake

FairSpec == LocalInit /\ [][LocalNext]_vars /\ WF_vars(TaskStep)

\* ------------------------------------- on_data_received called directly
\* The prices fed by hand, as test_single_data_point feeds one observation.
TestFeed == <<10, 10, 10, 10, 20, 20>>
Feeds == [1..Len(TestFeed) -> {10, 20}]

FeedInit ==
    /\ SysInit(<<"assistant", "none", DefaultMaxHistory, <<SMA(2, 4)>> >>)
    /\ feed \in Feeds
    /\ aStrategy = Mom(1) /\ aData = NoObs /\ aHistory = <<>> /\ aResults = <<>>
    /\ aStrategy0 = Mom(1) /\ aHistory0 = <<>>

\* The main coroutine awaits on_data_received(PriceData(price = the next of
\* feed)); it can do so whenever the task is suspended.
FeedObservation ==
    /\ pc \in Suspended /\ driver = "assistant" /\ seqno < Len(feed)
    /\ seqno' = seqno + 1
    /\ cur' = Obs(seqno + 1, feed[seqno + 1])
    /\ caller' = pc
    /\ pc' = "cb"
    /\ UNCHANGED <<argVars, cfgVars, asstVars, lrunning, lstarted, si, tickLog,
                   tickBase, inProc, processed, hooks, lastHook, history_list, websocket,
                   mprice, eof, expected, wsVars, stopVars, delivered, error,
                   cbLog>>

FeedNext == FeedObservation \/ OnDataReceived \/ AnalyzeOne \/ OnDataReturn

FeedSpec == FeedInit /\ [][FeedNext]_vars

\* on_data_received called by the main coroutine before, during and after a
\* run of start(): with no listener attached, or with the mock listener.
LifeFeeds == [1..MaxEvents -> {100, 103}]

LifeInit ==
    /\ \E sc \in { <<"assistant", k, c, st>> :
                      k \in {"none", "mock"}, c \in 1..MaxCap,
                      st \in StrategyConfigs } : SysInit(sc)
    /\ feed \in LifeFeeds
    /\ aStrategy = Mom(1) /\ aData = NoObs /\ aHistory = <<>> /\ aResults = <<>>
    /\ aStrategy0 = Mom(1) /\ aHistory0 = <<>>

LifeNext ==
    \/ StartNoListener \/ AssistantStart \/ StartEnds \/ MainStopAssistant
    \/ FeedObservation \/ OnDataReceived \/ AnalyzeOne \/ OnDataReturn
    \/ MockStart \/ MockTick \/ MockExit \/ MockWake

LifeSpec == LifeInit /\ [][LifeNext]_vars

\* --------------------------------------- analyze called on its own
CasePrices == {-100, 0, 99, 100, 102, 103}

CaseStrategies ==
    {SMA(1, 2), SMA(2, 2), SMA(2, 3)}
    \cup {RSI(p, Oversold, Overbought) : p \in 1..(MaxHist - 1)}
    \cup {Mom(k) : k \in 1..(MaxHist - 1)}

\* The history lists of at most n observations with prices from P.
Histories(P, n) ==
    UNION { { [i \in 1..k |-> Obs(i, f[i])] : f \in [1..k -> P] } : k \in 0..n }

\* RsiPeriod + 1 prices that rise by 1 each, and as many equal prices.
Rising == [i \in 1..(RsiPeriod + 1) |-> Obs(i, 100 + i)]
Flat == [i \in 1..(RsiPeriod + 1) |-> Obs(i, 100)]

\* <<strategy, data, history>>: only MomentumStrategy reads data, so the
\* others get the last observation of the history, as the assistant passes.
AnalysisCases ==
    { <<st, IF st.kind = "Momentum" THEN Obs(Len(h) + 1, d)
            ELSE IF h = <<>> THEN NoObs ELSE h[Len(h)], h>> :
        st \in CaseStrategies, d \in CasePrices,
        h \in Histories(CasePrices, MaxHist) }
    \cup { <<RSI(RsiPeriod, Oversold, Overbought), h[Len(h)], h>> :
             h \in {Rising, Flat} }

CaseInit ==
    /\ SysInit(<<"assistant", "none", 1, <<>> >>)
    /\ feed = <<>>
    /\ \E c \in AnalysisCases :
         /\ aStrategy = c[1] /\ aData = c[2] /\ aHistory = c[3]
         /\ aStrategy0 = c[1] /\ aHistory0 = c[3]
    /\ aResults = <<>>

\* Mutant: analyze takes the last observation off with history.pop().
HistoryAfterPop(h) == IF h = <<>> THEN h ELSE SubSeq(h, 1, Len(h) - 1)

\* The caller's history list after analyze: the three analyze methods read
\* it by len(), slices and comprehensions, which build new lists.
HistoryAfter(h) == h

\* strategy.analyze(data, history) is called and returns (or raises); it
\* assigns no attribute of the strategy.
AnalyzeCall ==
    /\ Len(aResults) < MaxCalls
    /\ aResults' = Append(aResults, analyze(aStrategy, aData, aHistory))
    /\ aHistory' = HistoryAfter(aHistory)
    /\ aStrategy' = aStrategy
    /\ UNCHANGED <<sysVars, feed, aData, aStrategy0, aHistory0, caller>>

CaseSpec == CaseInit /\ [][AnalyzeCall]_vars

\* ---------------------------------------------------------------- claims
IsSignal(r) == r \in {"BUY", "SELL"}

RECURSIVE CountIn(_, _)
CountIn(log, S) ==
    IF log = <<>> THEN 0
    ELSE (IF Head(log) \in S THEN 1 ELSE 0) + CountIn(Tail(log), S)

\* C1: the price history never holds more than max_history observations,
\* and it is exactly the last max_history observations received, in the
\* order they arrived.
C1_HistoryIsLastN ==
    driver = "assistant" =>
        /\ Len(history) <= cap
        /\ history = LastK(delivered, cap)

C1_Witness ==
    /\ driver = "assistant" /\ cap >= 2
    /\ Len(delivered) > cap
    /\ history[1].price # history[2].price

\* C2 (as claimed): once TradingAssistant.stop() has run, running is never
\* true again.
C2_StoppedIsTerminal == stopRan => ~running

\* C3: start() with no listener raises ValueError and changes nothing:
\* running, start_time, history, the counters, and no stop() is run.
C3_NoListenerStartFails ==
    [][ (pc = "t_init" /\ driver = "assistant" /\ kind = "none" /\ pc' # pc)
        => /\ pc' = "t_raised"
           /\ error' = "ValueError"
           /\ UNCHANGED <<running, stats, history, stopRan, lrunning,
                          delivered, hooks>> ]_vars

C3_Witness ==
    /\ kind = "none" /\ pc = "t_raised" /\ error = "ValueError"
    /\ ~running /\ stats = InitStats

\* C4: on a tick where a strategy raised, every registered strategy was
\* still invoked on the tick's history, and the BUY and SELL results of the
\* others were counted, when on_data_received returns.
C4_RaisingStrategyIsolated ==
    (pc = "o_ret" /\ CountIn(tickLog, {"RAISE"}) > 0) =>
        /\ Len(tickLog) = Len(strategies)
        /\ \A i \in 1..Len(strategies) :
              tickLog[i] = analyze(strategies[i], cur, history)
        /\ stats.total_signals =
              tickBase.total_signals + CountIn(tickLog, {"BUY", "SELL"})
        /\ stats.buy_signals = tickBase.buy_signals + CountIn(tickLog, {"BUY"})
        /\ stats.sell_signals =
              tickBase.sell_signals + CountIn(tickLog, {"SELL"})
        /\ hooks = stats.total_signals

C4_Witness ==
    /\ pc = "o_ret" /\ Len(tickLog) = 2
    /\ tickLog[1] = "RAISE" /\ IsSignal(tickLog[2])
    /\ stats.total_signals = tickBase.total_signals + 1

\* C5: a callback that raises does not end the listener's start(): the
\* listener is still running and back in its loop, whatever its kind.
C5_CallbackErrorContained ==
    [][ (pc = "cb" /\ driver = "direct" /\ pc' # pc
         /\ cbLog' = Append(cbLog, "raise"))
        => /\ lrunning'
           /\ pc' = (IF kind = "mock" THEN "m_loop"
                     ELSE IF kind = "file" THEN "f_next" ELSE "w_recv") ]_vars

C5_Witness ==
    /\ kind = "mock" /\ Len(cbLog) >= 2 /\ cbLog[1] = "raise"
    /\ Len(delivered) >= 2

\* C6: observations reach the assistant in the order the source produced
\* them, at most one is being processed, and none is left unfinished when
\* the source is back in its own code.
C6_OneAtATimeInOrder ==
    driver = "assistant" =>
        /\ Cardinality(inProc) <= 1
        /\ \A i \in 1..Len(delivered) : \A j \in 1..Len(delivered) :
              i < j => delivered[i].id < delivered[j].id
        /\ IF pc \in {"o_strat", "o_ret"}
           THEN inProc = {cur.id} /\ delivered = Append(processed, cur)
           ELSE inProc = {} /\ processed = delivered

C6_Witness ==
    /\ driver = "assistant" /\ Len(strategies) = 2
    /\ Len(processed) >= 2 /\ stopInRun /\ pc = "t_done"

\* C7: a file read to its end without a stop() has delivered exactly its
\* well-formed lines, in order; a malformed websocket message delivers
\* nothing and leaves the listener waiting for the next message.
C7_FileDeliversWellFormed ==
    (kind = "file" /\ eof /\ ~stopInRun) => delivered = expected

\* C7, in full: the file invariant above, and the websocket step on a
\* malformed message.
C7_MalformedSkipped ==
    /\ []C7_FileDeliversWellFormed
    /\ [][ (pc = "w_recv" /\ lrunning /\ seqno' # seqno /\ pc' # "cb")
           => /\ pc' = "w_recv"
              /\ UNCHANGED <<delivered, websocket, lrunning>> ]_vars

C7_Witness ==
    /\ kind = "file" /\ eof /\ ~stopInRun
    /\ seqno = 2 /\ Len(delivered) = 1 /\ delivered[1].id = 2

\* C8: a stop() during a mock or file listener's start() ends the run: no
\* further observation is delivered and no further sleep is begun, start()
\* returns, and the assistant that owns the listener ends stopped.
C8_StopEndsRun ==
    /\ []((kind \in {"mock", "file"} /\ stopInRun)
            => Len(delivered) = deliveredAtStop)
    /\ [][ (kind \in {"mock", "file"} /\ stopInRun
            /\ pc' \in {"m_sleep", "f_sleep"}) => pc' = pc ]_vars
    /\ ((kind \in {"mock", "file"} /\ stopInRun)
          ~> (/\ pc = "t_done" /\ ~lrunning
              /\ (driver = "assistant" => ~running /\ stopRan)))

C8_Witness ==
    /\ kind = "mock" /\ driver = "assistant" /\ stopInRun
    /\ pc = "t_done" /\ ~running /\ ~lrunning
    /\ deliveredAtStop >= 1 /\ Len(delivered) = deliveredAtStop
    /\ seqno < MaxEvents

\* C9: a stop() before start() raises nothing and leaves the listener as
\* constructed, and start() then sets running and enters its loop (a file
\* listener whose file is missing returns) exactly as it does otherwise.
C9_StopBeforeStartHarmless ==
    /\ []((earlyStop /\ ~lstarted /\ pc \in {"t_init", "l_start"})
            => /\ ~lrunning /\ websocket = "None"
               /\ error = "none" /\ stopError = "none")
    /\ [][ (pc = "l_start" /\ pc' # pc /\ (kind = "ws" => hasWebsockets))
           => /\ lrunning' /\ lstarted'
              /\ pc' = (IF kind = "mock" THEN "m_loop"
                        ELSE IF kind = "ws" THEN "w_loop"
                        ELSE IF fileExists THEN "f_next" ELSE "l_ret") ]_vars

C9_Witness ==
    /\ kind = "ws" /\ earlyStop /\ lrunning /\ ~stopInRun
    /\ Len(delivered) >= 2

\* C10: while the websocket listener is running, every failed connection
\* attempt and every closed connection is followed by one wait of
\* reconnect_interval and a new attempt, however many attempts have failed;
\* start() returns and attempts stop only once running is false.
C10_ReconnectForever ==
    /\ [](sleepFor \in {0, ReconnectInterval})
    /\ [][ (pc = "w_connecting" /\ pc' \notin {"w_connecting", "w_recv"})
           => pc' = "w_after" ]_vars
    /\ [][ (pc = "w_recv" /\ pc' \notin {"w_recv", "cb"})
           => pc' = "w_after" ]_vars
    /\ [][ (pc = "w_after" /\ pc' # pc /\ lrunning)
           => (pc' = "w_sleep" /\ sleepFor' = ReconnectInterval) ]_vars
    /\ [][ (pc = "w_sleep" /\ pc' # pc) => pc' = "w_loop" ]_vars
    /\ [][ (pc = "w_loop" /\ pc' # pc)
           => pc' = (IF lrunning THEN "w_connecting" ELSE "l_ret") ]_vars
    /\ [][ (pc # "w_connecting" /\ pc' = "w_connecting") => lrunning ]_vars

C10_Witness ==
    /\ pc = "w_connecting" /\ failures >= 2 /\ lrunning
    /\ sleepFor = ReconnectInterval /\ lossKind = "connect_failed"

\* C11: FileDataListener.start() always returns and never raises: once the
\* file is read to its end it has returned with every delivered line
\* processed, a missing file makes it return with nothing delivered, and a
\* TradingAssistant.start() driving it then runs stop() and ends with running
\* false.
C11_FileStartReturns ==
    /\ [](kind = "file" => pc \notin {"l_raise", "t_raised"} /\ error = "none")
    /\ []((kind = "file" /\ ~fileExists) => delivered = <<>>)
    /\ []((kind = "file" /\ eof)
           => /\ pc \in {"l_ret", "t_done"} /\ inProc = {}
              /\ (driver = "assistant" => processed = delivered))
    /\ [][ (kind = "file" /\ pc = "l_ret" /\ pc' # pc)
           => /\ pc' = "t_done"
              /\ (driver = "assistant" => stopRan' /\ ~running' /\ ~lrunning') ]_vars
    /\ ((kind = "file" /\ lstarted)
          ~> (pc = "t_done" /\ (driver = "assistant" => ~running /\ stopRan)))

C11_Witness ==
    /\ kind = "file" /\ driver = "assistant" /\ ~fileExists
    /\ pc = "t_done" /\ stopRan /\ ~running /\ ~stopInRun /\ delivered = <<>>

\* C12: an observation on which every registered strategy returns HOLD (or
\* with no strategy registered) changes only the history and last_price: the
\* counters and last_signal stay, the execution hook is not invoked; and
\* last_price becomes the price of every observation received.
C12_HoldChangesNothing ==
    /\ [][ (pc = "cb" /\ driver = "assistant" /\ pc' # pc)
           => /\ stats' = [stats EXCEPT !.last_price = <<cur.price>>]
              /\ hooks' = hooks /\ lastHook' = lastHook ]_vars
    /\ [][ (pc = "o_strat" /\ tickLog' = Append(tickLog, "HOLD"))
           => stats' = stats /\ hooks' = hooks /\ lastHook' = lastHook ]_vars
    /\ []((pc = "o_ret" /\ \A i \in DOMAIN tickLog : tickLog[i] = "HOLD")
           => stats = [tickBase EXCEPT !.last_price = <<cur.price>>])

C12_Witness ==
    /\ pc = "o_ret" /\ tickLog = <<"HOLD", "HOLD">>
    /\ tickBase.total_signals >= 1
    /\ stats.total_signals = tickBase.total_signals
    /\ stats.last_signal = tickBase.last_signal
    /\ stats.last_price # tickBase.last_price

\* C13: every BUY or SELL a strategy returns on a tick adds exactly 1 to
\* total_signals and to the counter of its kind, becomes last_signal, and
\* the execution hook is invoked exactly once with that signal, the current
\* observation and that strategy; so the number of hook invocations equals
\* total_signals at every moment.
C13_SignalCountedOnce ==
    /\ [](driver = "assistant" => hooks = stats.total_signals)
    /\ [][ \A r \in {"BUY", "SELL"} :
             (pc = "o_strat" /\ tickLog' = Append(tickLog, r))
             => /\ stats'.total_signals = stats.total_signals + 1
                /\ stats'.buy_signals
                     = stats.buy_signals + (IF r = "BUY" THEN 1 ELSE 0)
                /\ stats'.sell_signals
                     = stats.sell_signals + (IF r = "SELL" THEN 1 ELSE 0)
                /\ stats'.last_signal = r
                /\ hooks' = hooks + 1
                /\ lastHook' = [signal |-> r, data |-> cur, strategy |-> si]
                /\ cur = history[Len(history)] ]_vars

C13_Witness ==
    /\ lastHook.signal = "SELL" /\ lastHook.strategy = 2
    /\ lastHook.data = cur /\ stats.last_signal = "SELL"
    /\ stats.buy_signals = 1 /\ stats.sell_signals = 1 /\ hooks = 2

\* C14: TradingAssistant.start() with a listener attached never lets an
\* exception out: what the listener's start() raises is caught, stop() is
\* run and start() returns normally; the only exception start() raises is
\* the ValueError of the missing listener.
C14_StartNeverPropagates ==
    /\ []((driver = "assistant" /\ kind # "none")
           => error = "none" /\ pc # "t_raised" /\ stopError = "none")
    /\ []((driver = "assistant" /\ error # "none")
           => kind = "none" /\ error = "ValueError")
    /\ [][ (driver = "assistant" /\ pc = "l_raise" /\ pc' # pc)
           => /\ pc' = "t_done" /\ error' = "none"
              /\ stopRan' /\ ~running' /\ ~lrunning' ]_vars

C14_Witness ==
    /\ driver = "assistant" /\ kind = "ws" /\ ~hasWebsockets
    /\ pc = "t_done" /\ stopRan /\ ~running /\ error = "none" /\ ~lstarted

\* The number of observations a strategy needs before it may signal.
RequiredWindow(st) ==
    IF st.kind = "SMA" THEN st.b
    ELSE IF st.kind = "RSI" THEN st.a + 1
    ELSE st.a

\* C15: on a history shorter than the strategy's required window (SMA:
\* long_window, RSI: period + 1, Momentum: lookback_period) analyze returns
\* HOLD and does not raise; SMA also returns HOLD on a history of exactly
\* long_window observations.
C15_WarmUpHolds ==
    \A i \in DOMAIN aResults :
        /\ Len(aHistory0) < RequiredWindow(aStrategy0) => aResults[i] = "HOLD"
        /\ (aStrategy0.kind = "SMA" /\ Len(aHistory0) = aStrategy0.b)
              => aResults[i] = "HOLD"

C15_Witness ==
    /\ aStrategy0.kind = "RSI" /\ Len(aHistory0) = aStrategy0.a
    /\ aStrategy0.a >= 2
    /\ aHistory0[1].price > aHistory0[2].price
    /\ aResults = <<"HOLD">>

\* The sum of the n prices of h that end at position last.
RECURSIVE WindowSum(_, _, _)
WindowSum(h, last, n) ==
    IF n = 0 THEN 0 ELSE h[last].price + WindowSum(h, last - 1, n - 1)

\* The crossover rule on history h: the short and long means now and one
\* element earlier, compared as sums (a / short > b / long iff
\* a * long > b * short).
CrossUp(short, long, h) ==
    /\ WindowSum(h, Len(h), short) * long > WindowSum(h, Len(h), long) * short
    /\ WindowSum(h, Len(h) - 1, short) * long
         <= WindowSum(h, Len(h) - 1, long) * short
CrossDown(short, long, h) ==
    /\ WindowSum(h, Len(h), short) * long < WindowSum(h, Len(h), long) * short
    /\ WindowSum(h, Len(h) - 1, short) * long
         >= WindowSum(h, Len(h) - 1, long) * short
Crossover(short, long, h) ==
    IF CrossUp(short, long, h) THEN "BUY"
    ELSE IF CrossDown(short, long, h) THEN "SELL"
    ELSE "HOLD"

\* C16: an assistant with the single strategy SMA(short 2, long 4), fed the
\* prices 10, 10, 10, 10, 20, 20 through on_data_received, holds on the
\* first four ticks, gives on ticks 5 and 6 what the crossover rule gives
\* on the history of that tick (BUY, then HOLD), and ends with
\* total_signals 1, buy_signals 1 and sell_signals 0.
C16_SmaEndToEnd ==
    feed = TestFeed
    => /\ (pc = "o_ret" /\ seqno <= 4) => tickLog = <<"HOLD">>
       /\ (pc = "o_ret" /\ seqno >= 5)
            => tickLog = <<Crossover(2, 4, history)>>
       /\ (pc = "o_ret" /\ seqno = 5) => tickLog = <<"BUY">>
       /\ (pc = "o_ret" /\ seqno = 6) => tickLog = <<"HOLD">>
       /\ (pc = "t_init" /\ seqno = 6)
            => /\ stats.total_signals = 1 /\ stats.buy_signals = 1
               /\ stats.sell_signals = 0

C16_Witness ==
    /\ feed = TestFeed /\ pc = "t_init" /\ seqno = 6
    /\ Len(history) = 6 /\ stats.last_signal = "BUY" /\ hooks = 1

\* C17: on a history of at least long_window + 1 observations (short_window
\* <= long_window) the SMA strategy returns BUY exactly when the short mean
\* is above the long mean and was at or below it one element earlier, SELL
\* exactly when it is below and was at or above, HOLD otherwise; the two
\* conditions never hold together.
C17_SmaCrossover ==
    \A i \in DOMAIN aResults :
        (/\ aStrategy0.kind = "SMA" /\ aStrategy0.a <= aStrategy0.b
         /\ Len(aHistory0) >= aStrategy0.b + 1)
        => /\ aResults[i] = Crossover(aStrategy0.a, aStrategy0.b, aHistory0)
           /\ ~(CrossUp(aStrategy0.a, aStrategy0.b, aHistory0)
                /\ CrossDown(aStrategy0.a, aStrategy0.b, aHistory0))

C17_Witness ==
    /\ aStrategy0 = SMA(2, 3) /\ Len(aHistory0) = 4
    /\ aResults = <<"SELL">>

\* The gains (sign 1) or the losses (sign -1) among the changes between
\* consecutive prices of h from position from on, summed.
RECURSIVE MovesFrom(_, _, _)
MovesFrom(h, from, sign) ==
    IF from >= Len(h) THEN 0
    ELSE (IF (h[from + 1].price - h[from].price) * sign > 0
          THEN (h[from + 1].price - h[from].price) * sign ELSE 0)
         + MovesFrom(h, from + 1, sign)

\* RSI = 100 - 100 / (1 + avgGain / avgLoss) = 100 * G / (G + L) for the
\* gains G and losses L of the last period + 1 prices, 100 when L = 0;
\* RSI < t iff 100 * G < t * (G + L).
RsiRule(period, oversold, overbought, h) ==
    LET G == MovesFrom(h, Len(h) - period, 1)
        L == MovesFrom(h, Len(h) - period, -1)
    IN IF L = 0 THEN (IF 100 < oversold THEN "BUY"
                      ELSE IF 100 > overbought THEN "SELL" ELSE "HOLD")
       ELSE IF 100 * G < oversold * (G + L) THEN "BUY"
       ELSE IF 100 * G > overbought * (G + L) THEN "SELL"
       ELSE "HOLD"

\* C18: on a history of at least period + 1 observations the RSI strategy
\* returns BUY when the RSI of the last period + 1 prices is below oversold,
\* SELL when it is above overbought, HOLD otherwise; with no decrease in
\* the window the RSI is 100, so 15 rising prices and 15 equal prices both
\* give SELL with period 14 and overbought 70.
C18_RsiRule ==
    \A i \in DOMAIN aResults :
        (aStrategy0.kind = "RSI" /\ Len(aHistory0) >= aStrategy0.a + 1)
        => /\ aResults[i]
                = RsiRule(aStrategy0.a, aStrategy0.b, aStrategy0.c, aHistory0)
           /\ (/\ MovesFrom(aHistory0, Len(aHistory0) - aStrategy0.a, -1) = 0
               /\ aStrategy0.c < 100) => aResults[i] = "SELL"
           /\ (aStrategy0 = RSI(14, 30, 70) /\ aHistory0 \in {Rising, Flat})
                => aResults[i] = "SELL"

C18_Witness ==
    /\ aStrategy0 = RSI(14, 30, 70) /\ aHistory0 = Rising
    /\ Len(aHistory0) = 15 /\ aResults = <<"SELL">>

\* C19: on a history of at least lookback_period observations whose element
\* at index -lookback_period has a non-zero price p, the momentum strategy
\* returns BUY when (current - p) / p > threshold, SELL when it is below
\* -threshold, HOLD otherwise, both strictly; with p = 100 and threshold
\* 0.02 a current price of 103 gives BUY and 99 gives HOLD. (x / p > t / 100
\* iff x * p * 100 > t * p * p.)
C19_MomentumRule ==
    \A i \in DOMAIN aResults :
        (aStrategy0.kind = "Momentum" /\ Len(aHistory0) >= aStrategy0.a)
        => LET p == aHistory0[Len(aHistory0) + 1 - aStrategy0.a].price
               x == aData.price - p
           IN p # 0
              => /\ aResults[i]
                      = (IF x * p * 100 > ThresholdPct * p * p THEN "BUY"
                         ELSE IF x * p * 100 < -(ThresholdPct * p * p)
                              THEN "SELL"
                         ELSE "HOLD")
                 /\ (p = 100 /\ aData.price = 103) => aResults[i] = "BUY"
                 /\ (p = 100 /\ aData.price = 99) => aResults[i] = "HOLD"

C19_Witness ==
    /\ aStrategy0 = Mom(2) /\ Len(aHistory0) = 3
    /\ aHistory0[2].price = 100 /\ aData.price = 103
    /\ aResults = <<"BUY">>

C21_SameSnapshotInOrder ==
    (driver = "assistant" /\ pc \in {"o_strat", "o_ret"})
    => /\ Len(tickLog) = si - 1 /\ si <= Len(strategies) + 1
       /\ pc = "o_ret" => Len(tickLog) = Len(strategies)
       /\ pc = "o_strat" => si <= Len(strategies)
       /\ strategies # <<>>
            => /\ history_list = LastK(delivered, cap)
               /\ history_list[Len(history_list)] = cur
       /\ \A i \in DOMAIN tickLog :
            tickLog[i] = analyze(strategies[i], cur, LastK(delivered, cap))

C21_Witness ==
    /\ pc = "o_ret" /\ strategies = <<Mom(1), Mom(2)>>
    /\ tickLog = <<"HOLD", "SELL">>
    /\ cap = 2 /\ Len(delivered) = 3 /\ history_list = history

\* C22: within one run of a listener's start(), no observation is delivered
\* to the callback after stop() has set running to false, whether stop()
\* came during a sleep, during a message wait or from inside the callback.
C22_NoDeliveryAfterStop ==
    /\ [](stopInRun => Len(delivered) = deliveredAtStop)
    /\ [][ (InRun /\ ~lrunning) => delivered' = delivered ]_vars
    /\ [][ (pc # "cb" /\ pc' = "cb" /\ caller' = "listener") => lrunning ]_vars

C22_Witness ==
    /\ kind = "ws" /\ driver = "direct" /\ cbLog = <<"ok", "stop">>
    /\ seqno = 3 /\ Len(delivered) = 2 /\ deliveredAtStop = 2
    /\ pc = "t_done" /\ ~lrunning

\* C23: the file and the mock listener sleep one interval between any two
\* consecutive loop iterations, also when the callback raised: whenever the
\* callback hands control back to the listener's loop, returned or raised,
\* the loop sleeps before its next iteration.
C23_SleepEveryIteration ==
    [][ (/\ kind \in {"mock", "file"} /\ pc \in {"cb", "o_ret"}
         /\ pc' \in {"m_loop", "m_sleep", "f_next", "f_sleep"})
        => pc' \in {"m_sleep", "f_sleep"} ]_vars

\* C24: in every state total_signals = buy_signals + sell_signals and
\* hold_signals = 0, no counter ever decreases, and last_signal is unset
\* while no BUY or SELL was returned and otherwise the BUY or SELL most
\* recently returned by a strategy, never HOLD.
C24_CountersConsistent ==
    /\ [](/\ stats.total_signals = stats.buy_signals + stats.sell_signals
          /\ stats.hold_signals = 0
          /\ stats.last_signal = lastHook.signal
          /\ stats.last_signal \in {"None", "BUY", "SELL"}
          /\ (stats.last_signal = "None" <=> stats.total_signals = 0))
    /\ [][ /\ stats'.total_signals >= stats.total_signals
           /\ stats'.buy_signals >= stats.buy_signals
           /\ stats'.sell_signals >= stats.sell_signals
           /\ stats'.hold_signals >= stats.hold_signals ]_vars

C24_Witness ==
    /\ stats.total_signals = 2 /\ stats.buy_signals = 1
    /\ stats.sell_signals = 1 /\ stats.last_signal = "BUY"
    /\ pc = "t_done"

\* C25: on_data_received does not look at the lifecycle state: an
\* observation passed to it while the assistant is idle (never started) or
\* stopped is appended to the history, sets last_price and is evaluated by
\* every registered strategy, counters and hook updated, as while running;
\* and it leaves the lifecycle state as it was.
C25_LifecycleIndependent ==
    /\ [][ (pc = "cb" /\ pc' # pc)
           => /\ history' = LastK(Append(history, cur), cap)
              /\ stats' = [stats EXCEPT !.last_price = <<cur.price>>]
              /\ pc' = (IF strategies = <<>> THEN "o_ret" ELSE "o_strat")
              /\ running' = running /\ stopRan' = stopRan ]_vars
    /\ [](pc = "o_ret"
           => /\ Len(tickLog) = Len(strategies)
              /\ \A i \in DOMAIN tickLog :
                   tickLog[i] = analyze(strategies[i], cur, history)
              /\ stats.total_signals
                   = tickBase.total_signals + CountIn(tickLog, {"BUY", "SELL"})
              /\ stats.buy_signals
                   = tickBase.buy_signals + CountIn(tickLog, {"BUY"})
              /\ stats.sell_signals
                   = tickBase.sell_signals + CountIn(tickLog, {"SELL"})
              /\ hooks = stats.total_signals)
    /\ [][ (pc = "o_ret" /\ pc' # pc /\ caller # "listener")
           => pc' = caller /\ running' = running /\ stopRan' = stopRan ]_vars

C25_Witness ==
    /\ caller = "t_done" /\ stopRan /\ ~running /\ pc = "o_ret"
    /\ tickLog = <<"HOLD", "BUY">> /\ hooks = tickBase.total_signals + 1
    /\ lastHook.data = cur /\ history[Len(history)] = cur
====
